---- MODULE Spec2Model ----
EXTENDS Integers, Sequences, FiniteSets, TLC

(***************************************************************************)
(* YT-TG-Upload: a YouTube video is listed, fetched with yt-dlp, relayed   *)
(* to a Telegram channel with pyrogram and its local files are removed.    *)
(* The repository holds the monolithic script main.py (prefix Main_) and   *)
(* the package src/ (core/downloader.py, telegram/uploader.py,             *)
(* utils/helpers.py, utils/validators.py).                                 *)
(*                                                                         *)
(* A path is the sequence of its dot-separated components, so that         *)
(* "v.info.json" is <<"v","info","json">>.  None and the empty string are  *)
(* both falsy in the code and are both the empty sequence here.            *)
(***************************************************************************)

VARIABLES disk, call, pc, run

vars == <<disk, call, pc, run>>

None == <<>>

\* ---------------------------------------------------------------- bounds
\* Number of format entries the backend reports for one resource.
MaxFormats == 2
\* Number of member entries the backend reports for one collection URL.
MaxEntries == 2

\* ------------------------------------------------------------ file names
Title == "v"

Containers == {"mp4", "mkv", "webm"}
ThumbExts == <<"webp", "jpg", "png">>
ThumbExtSet == {ThumbExts[i] : i \in 1..Len(ThumbExts)}

Path(base, ext) == Append(base, ext)

\* str.rsplit('.', 1)[0]: everything before the last dot, the whole string
\* when it has no dot.
rsplit(p) == IF Len(p) > 1 THEN SubSeq(p, 1, Len(p) - 1) ELSE p

AllFiles ==
    {Path(<<Title>>, e) : e \in Containers \cup ThumbExtSet}
        \cup {<<Title, "info", "json">>}

\* @dataclass DownloadResult
DownloadResult(video_path, thumbnail_path, video_title, duration) ==
    [video_path |-> video_path, thumbnail_path |-> thumbnail_path,
     video_title |-> video_title, duration |-> duration]

\* The DownloadResult values a caller may hand to upload and cleanup.
DownloadResults ==
    {DownloadResult(Path(<<Title>>, c), t, Title, 0) :
        c \in Containers,
        t \in {None} \cup {Path(<<Title>>, e) : e \in ThumbExtSet}}

\* ------------------------------------------------------------ validators
\* A URL is the sequence of its characters.  The regular expressions of
\* validate_youtube_url are run as Python's re.match runs them: from
\* position 1, each piece taking a set of start positions to the set of
\* positions where it can end.
WordChars ==
    {"a", "b", "c", "e", "h", "m", "o", "p", "s", "t", "u", "v", "w", "x", "y",
     "0", "1", "_"}

\* the literal pieces of the patterns
HTTP == <<"h", "t", "t", "p", ":", "/", "/">>
HTTPS == <<"h", "t", "t", "p", "s", ":", "/", "/">>
WWW == <<"w", "w", "w", ".">>
YOUTUBE_COM == <<"y", "o", "u", "t", "u", "b", "e", ".", "c", "o", "m">>
YOUTU_BE == <<"y", "o", "u", "t", "u", ".", "b", "e">>
YOUTUBE == <<"y", "o", "u", "t", "u", "b", "e">>
SLASH == <<"/">>
WATCH == <<"/", "w", "a", "t", "c", "h", "?", "v", "=">>

NewLine == "\n"

\* the literal `lit` at one of the positions P
Lit(s, P, lit) ==
    {q + Len(lit) : q \in {r \in P : /\ r + Len(lit) - 1 <= Len(s)
                                      /\ SubSeq(s, r, r + Len(lit) - 1) = lit}}

\* (x)? : with or without x
Opt(P, Q) == P \cup Q

\* the position after the longest run of characters of C that starts at q
RECURSIVE RunEnd(_, _, _)
RunEnd(s, q, C) ==
    IF q <= Len(s) /\ s[q] \in C THEN RunEnd(s, q + 1, C) ELSE q

\* c+ for a character class C: one or more characters of C
Plus(s, P, C) == UNION {(q + 1)..RunEnd(s, q, C) : q \in P}

\* [\w-]+
WordPlus(s, P) == Plus(s, P, WordChars \cup {"-"})

\* .+  (any character but a newline)
DotPlus(s, P) == Plus(s, P, {s[k] : k \in 1..Len(s)} \ {NewLine})

\* $ : the end of the string, or just before a newline that ends it
AtEnd(s, P) ==
    \E q \in P : q = Len(s) + 1 \/ (q = Len(s) /\ s[q] = NewLine)

\* ^(https?\:\/\/)?(www\.)?
Prefix(s) ==
    LET p0 == {1}
        p1 == Opt(p0, Lit(s, p0, HTTP) \cup Lit(s, p0, HTTPS))
    IN  Opt(p1, Lit(s, p1, WWW))

\* (youtube\.com|youtu\.?be)
Host(s, P) ==
    Lit(s, P, YOUTUBE_COM) \cup Lit(s, P, YOUTU_BE) \cup Lit(s, P, YOUTUBE)

\* r'^(https?\:\/\/)?(www\.)?(youtube\.com|youtu\.?be)\/.+$'
Pattern1(s) == AtEnd(s, DotPlus(s, Lit(s, Host(s, Prefix(s)), SLASH)))

\* r'^(https?\:\/\/)?(www\.)?youtube\.com\/watch\?v=[\w-]+'
Pattern2(s) ==
    WordPlus(s, Lit(s, Lit(s, Prefix(s), YOUTUBE_COM), WATCH)) /= {}

\* r'^(https?\:\/\/)?(www\.)?youtu\.be\/[\w-]+'
Pattern3(s) ==
    WordPlus(s, Lit(s, Lit(s, Prefix(s), YOUTU_BE), SLASH)) /= {}

\* validators.py
validate_youtube_url(url) == Pattern1(url) \/ Pattern2(url) \/ Pattern3(url)

\* r'^(https?\:\/\/)?(www\.)?youtube\.com\/watch\?v=[\w-]+(\&.+)?$'
Main_Pattern2(s) ==
    LET w == WordPlus(s, Lit(s, Lit(s, Prefix(s), YOUTUBE_COM), WATCH))
    IN  AtEnd(s, Opt(w, DotPlus(s, Lit(s, w, <<"&">>))))

\* r'^(https?\:\/\/)?(www\.)?youtu\.be\/[\w-]+(\?.+)?$'
Main_Pattern3(s) ==
    LET w == WordPlus(s, Lit(s, Lit(s, Prefix(s), YOUTU_BE), SLASH))
    IN  AtEnd(s, Opt(w, DotPlus(s, Lit(s, w, <<"?">>))))

\* YouTubeTelegramDownloader.validate_youtube_url of main.py
Main_validate_youtube_url(url) ==
    Pattern1(url) \/ Main_Pattern2(url) \/ Main_Pattern3(url)

\* The selection test that lets every id through.
validate_format_selection_any(available_formats, selected_format) == TRUE

\* validators.py / main.py: selected_format in available_formats
validate_format_selection(available_formats, selected_format) ==
    selected_format \in available_formats

\* The URLs the calls are tried on.
Urls ==
    { HTTPS \o WWW \o YOUTUBE_COM \o WATCH \o <<"a", "b", "c">>,
      YOUTU_BE \o SLASH \o <<"x", "-", "1">>,
      YOUTUBE_COM \o WATCH \o <<"a", NewLine, "x">>,
      YOUTUBE_COM,
      HTTP \o <<"v", "e", "o", ".", "c", "o", "m">> \o SLASH \o <<"x">>,
      <<>> }

\* --------------------------------------------------- extraction backend
\* A Python dict is a function on the keys it holds; a value that may be
\* None is a sequence, <<>> for None and <<x>> for x.
get(dict, key, default) == IF key \in DOMAIN dict THEN dict[key] ELSE default

MiB == 1048576

\* Where a string is expected: Python's None, and the empty (falsy) id.
NoneStr == "<None>"
NoId == ""

\* Format dicts as yt-dlp reports them.
FormatPool ==
    { [format_id |-> "137", vcodec |-> "avc1", acodec |-> "none", ext |-> "mp4",
       height |-> 1080, filesize |-> <<3 * MiB>>],
      [format_id |-> "140", vcodec |-> "none", acodec |-> "mp4a", ext |-> "m4a",
       abr |-> 128, filesize |-> <<>>, filesize_approx |-> <<MiB \div 2>>],
      [format_id |-> "18", vcodec |-> "avc1", acodec |-> "mp4a", ext |-> "mp4",
       filesize |-> <<>>, filesize_approx |-> <<>>],
      [vcodec |-> "none", acodec |-> "opus"] }

\* Playlist members as the backend reports them; <<>> is a None entry.
EntryPool ==
    { <<[title |-> "t1", url |-> "u1"]>>,
      <<[title |-> "t2"]>>,
      <<>> }

SeqsUpTo(S, n) == UNION {[1..k -> S] : k \in 0..n}

\* What one extract_info(url, download=False) call does: raise
\* yt_dlp.utils.DownloadError, raise something else, return None, or
\* return an info dict.
ExtractBackends ==
    {[kind |-> "DownloadError"], [kind |-> "Exception"], [kind |-> "None"]}
        \cup {[kind |-> "info", info |-> [title |-> Title, formats |-> f]] :
                f \in SeqsUpTo(FormatPool, MaxFormats)}
        \cup {[kind |-> "info", info |-> [title |-> Title]]}

\* 'entries' of a playlist: a list, or a lazy iterable that has no len().
PlaylistBackends ==
    {[kind |-> "DownloadError"], [kind |-> "Exception"], [kind |-> "None"]}
        \cup {[kind |-> "info", info |-> [title |-> Title, entries |-> <<"list", e>>]] :
                e \in SeqsUpTo(EntryPool, MaxEntries)}
        \cup {[kind |-> "info", info |-> [title |-> Title, entries |-> <<"lazy", e>>]] :
                e \in SeqsUpTo(EntryPool, MaxEntries)}
        \cup {[kind |-> "info", info |-> [title |-> Title]]}

Raises(b) == b.kind \in {"DownloadError", "Exception"}

\* The outcome of a call: the exception raised ("" for none), the value
\* returned (<<>> for none), the number of extract_info calls made.
Outcome(exc, ret, extracts) == [exc |-> exc, ret |-> ret, extracts |-> extracts]

\* ---------------------------------------------------- get_video_qualities
EmptyDict == [k \in {} |-> <<>>]

\* filesize / (1024 * 1024) as it is printed (.1f in downloader.py, .2f in
\* main.py), counted in units of the last decimal (scale 10 or 100); 0 when
\* there is no truthy filesize.
size_mb(fmt, scale) ==
    LET filesize == get(fmt, "filesize", <<0>>)
    IN  IF filesize /= <<>> /\ filesize[1] /= 0
        THEN (filesize[1] * scale + (MiB \div 2)) \div MiB
        ELSE 0

\* The pass that lists as audio every format with an audio codec.
classify_any_audio(acc, fmt) ==
    LET vcodec == get(fmt, "vcodec", NoneStr)
        acodec == get(fmt, "acodec", NoneStr)
        keys   == {"format_id", "ext"} \subseteq DOMAIN fmt
        a1 == IF vcodec /= "none"
              THEN IF keys
                   THEN [acc EXCEPT !.video_formats =
                            (fmt.format_id :> <<get(fmt, "height", 0), get(fmt, "fps", 0),
                                                fmt.ext, size_mb(fmt, 10)>>) @@ @]
                   ELSE [acc EXCEPT !.exc = "KeyError"]
              ELSE acc
    IN  IF a1.exc = "" /\ acodec /= "none"
        THEN IF keys
             THEN [a1 EXCEPT !.audio_formats =
                      (fmt.format_id :> <<get(fmt, "abr", 0), fmt.ext>>) @@ @]
             ELSE [a1 EXCEPT !.exc = "KeyError"]
        ELSE a1

\* One pass of the loop of downloader.py over a format; acc.exc is set
\* when fmt['format_id'] or fmt['ext'] is missing (KeyError).
classify(acc, fmt) ==
    LET vcodec == get(fmt, "vcodec", NoneStr)
        acodec == get(fmt, "acodec", NoneStr)
        keys   == {"format_id", "ext"} \subseteq DOMAIN fmt
        a1 == IF vcodec /= "none"
              THEN IF keys
                   THEN [acc EXCEPT !.video_formats =
                            (fmt.format_id :> <<get(fmt, "height", 0), get(fmt, "fps", 0),
                                                fmt.ext, size_mb(fmt, 10)>>) @@ @]
                   ELSE [acc EXCEPT !.exc = "KeyError"]
              ELSE acc
    IN  IF a1.exc = "" /\ acodec /= "none" /\ vcodec = "none"
        THEN IF keys
             THEN [a1 EXCEPT !.audio_formats =
                      (fmt.format_id :> <<get(fmt, "abr", 0), fmt.ext>>) @@ @]
             ELSE [a1 EXCEPT !.exc = "KeyError"]
        ELSE a1

\* The same pass in main.py, where every field is read with a default.
Main_classify(acc, fmt) ==
    LET vcodec == get(fmt, "vcodec", NoneStr)
        acodec == get(fmt, "acodec", NoneStr)
        a1 == IF vcodec /= "none"
              THEN [acc EXCEPT !.video_formats =
                       (get(fmt, "format_id", "") :>
                           <<get(fmt, "height", 0), get(fmt, "fps", 0),
                             get(fmt, "ext", ""), size_mb(fmt, 100)>>) @@ @]
              ELSE acc
    IN  IF acodec /= "none" /\ vcodec = "none"
        THEN [a1 EXCEPT !.audio_formats =
                 (get(fmt, "format_id", "") :>
                     <<get(fmt, "abr", 0), get(fmt, "ext", "")>>) @@ @]
        ELSE a1

RECURSIVE classify_all(_, _, _)
classify_all(impl, acc, formats) ==
    IF formats = <<>> \/ acc.exc /= "" THEN acc
    ELSE classify_all(impl,
                      IF impl = "main" THEN Main_classify(acc, Head(formats))
                      ELSE classify(acc, Head(formats)),
                      Tail(formats))

VideoInfo(acc, info) ==
    [video_formats |-> acc.video_formats, audio_formats |-> acc.audio_formats,
     title |-> get(info, "title", "Unknown Title"),
     duration |-> get(info, "duration", 0),
     thumbnail |-> get(info, "thumbnail", <<>>)]

listing(impl, b) ==
    IF b.kind /= "info" THEN Outcome("RuntimeError", <<>>, 1)
    ELSE LET acc == classify_all(impl,
                        [video_formats |-> EmptyDict, audio_formats |-> EmptyDict,
                         exc |-> ""],
                        get(b.info, "formats", <<>>))
         IN  IF acc.exc /= "" THEN Outcome("RuntimeError", <<>>, 1)
             ELSE Outcome("", <<VideoInfo(acc, b.info)>>, 1)

\* get_video_qualities with the URL test inside the try block: its
\* ValueError becomes the RuntimeError of a failed extraction.
get_video_qualities_checked_inside(url, b) ==
    IF ~validate_youtube_url(url) THEN Outcome("RuntimeError", <<>>, 0)
    ELSE listing("pkg", b)

\* YouTubeTelegramDownloader.get_video_qualities of downloader.py:
\* ValueError before the try block for an invalid URL; inside it every
\* exception (the backend's, info being None, a missing key) becomes
\* RuntimeError.
get_video_qualities(url, b) ==
    IF ~validate_youtube_url(url) THEN Outcome("ValueError", <<>>, 0)
    ELSE listing("pkg", b)

\* YouTubeTelegramDownloader.get_video_qualities of main.py
Main_get_video_qualities(url, b) ==
    IF ~Main_validate_youtube_url(url) THEN Outcome("ValueError", <<>>, 0)
    ELSE listing("main", b)

\* ------------------------------------------------------------ is_playlist
\* is_playlist that takes one member for a playlist.
is_playlist_at_least_one(url, b) ==
    IF ~validate_youtube_url(url) THEN Outcome("", <<FALSE>>, 0)
    ELSE IF b.kind /= "info" THEN Outcome("", <<FALSE>>, 1)
    ELSE LET entries == get(b.info, "entries", <<"list", <<>> >>)
         IN  IF entries[1] = "lazy" THEN Outcome("", <<FALSE>>, 1)
             ELSE Outcome("", <<Len(entries[2]) >= 1>>, 1)

\* YouTubeTelegramDownloader.is_playlist: False for an invalid URL; the
\* backend raising, info being None (info.get fails) and len() of a lazy
\* iterable all end in `except Exception: return False`.
is_playlist(url, b) ==
    IF ~validate_youtube_url(url) THEN Outcome("", <<FALSE>>, 0)
    ELSE IF b.kind /= "info" THEN Outcome("", <<FALSE>>, 1)
    ELSE LET entries == get(b.info, "entries", <<"list", <<>> >>)
         IN  IF entries[1] = "lazy" THEN Outcome("", <<FALSE>>, 1)
             ELSE Outcome("", <<entries[2] /= <<>> /\ Len(entries[2]) > 1>>, 1)

\* ---------------------------------------------------- get_playlist_entries
\* entry and entry.get('url') and entry.get('title')
valid_entry(entry) ==
    /\ entry /= <<>>
    /\ get(entry[1], "url", "") /= ""
    /\ get(entry[1], "title", "") /= ""

\* The loop that builds playlist_entries.
RECURSIVE playlist_entries(_)
playlist_entries(entries) ==
    IF entries = <<>> THEN <<>>
    ELSE LET entry == Head(entries)
         IN  (IF valid_entry(entry)
              THEN <<[title |-> entry[1].title, url |-> entry[1].url]>>
              ELSE <<>>) \o playlist_entries(Tail(entries))

\* get_playlist_entries without the test of the list it has built.
get_playlist_entries_unchecked(url, b) ==
    IF ~validate_youtube_url(url) THEN Outcome("ValueError", <<>>, 0)
    ELSE IF b.kind /= "info" THEN Outcome("RuntimeError", <<>>, 1)
    ELSE LET entries == get(b.info, "entries", <<"list", <<>> >>)
         IN  IF entries[1] = "list" /\ entries[2] = <<>>
             THEN Outcome("RuntimeError", <<>>, 1)
             ELSE Outcome("", <<playlist_entries(entries[2])>>, 1)

\* YouTubeTelegramDownloader.get_playlist_entries: ValueError for an
\* invalid URL (raised before the try block); the backend raising, info
\* being None, an empty entries list and an empty result all leave the try
\* block as RuntimeError.  A lazy iterable is truthy even when it yields
\* nothing.
get_playlist_entries(url, b) ==
    IF ~validate_youtube_url(url) THEN Outcome("ValueError", <<>>, 0)
    ELSE IF b.kind /= "info" THEN Outcome("RuntimeError", <<>>, 1)
    ELSE LET entries == get(b.info, "entries", <<"list", <<>> >>)
         IN  IF entries[1] = "list" /\ entries[2] = <<>>
             THEN Outcome("RuntimeError", <<>>, 1)
             ELSE IF playlist_entries(entries[2]) = <<>>
             THEN Outcome("RuntimeError", <<>>, 1)
             ELSE Outcome("", <<playlist_entries(entries[2])>>, 1)

\* ----------------------------------------------------- get_estimated_size
\* A number is the fraction num/den.
Number(num, den) == [num |-> num, den |-> den]
Zero == Number(0, 1)

\* fmt.get('filesize') or fmt.get('filesize_approx', 0): the declared size
\* when it is truthy, else the approximate size, 0 when the key is absent.
\* The result is <<n>>, or <<>> when the approximate size is None.
size_of(fmt) ==
    LET filesize == get(fmt, "filesize", <<>>)
    IN  IF filesize /= <<>> /\ filesize[1] /= 0 THEN filesize
        ELSE get(fmt, "filesize_approx", <<0>>)

\* The loop over info['formats']: total is <<n>>, or <<>> once adding a
\* None raised TypeError.
RECURSIVE sum_sizes(_, _, _, _)
sum_sizes(formats, video_format, audio_format, total) ==
    IF formats = <<>> \/ total = <<>> THEN total
    ELSE LET fmt == Head(formats)
             id  == get(fmt, "format_id", NoneStr)
             t1  == IF id = video_format
                    THEN (IF size_of(fmt) = <<>> THEN <<>>
                          ELSE <<total[1] + size_of(fmt)[1]>>)
                    ELSE total
             t2  == IF t1 /= <<>> /\ audio_format /= NoId /\ id = audio_format
                    THEN (IF size_of(fmt) = <<>> THEN <<>>
                          ELSE <<t1[1] + size_of(fmt)[1]>>)
                    ELSE t1
         IN  sum_sizes(Tail(formats), video_format, audio_format, t2)

\* get_estimated_size without the handler around the extraction.
get_estimated_size_uncaught(url, video_format, audio_format, b) ==
    IF ~validate_youtube_url(url) THEN Outcome("ValueError", <<>>, 0)
    ELSE IF Raises(b) THEN Outcome(b.kind, <<>>, 1)
    ELSE IF b.kind = "None" THEN Outcome("AttributeError", <<>>, 1)
    ELSE LET total == sum_sizes(get(b.info, "formats", <<>>),
                                video_format, audio_format, <<0>>)
         IN  IF total = <<>> THEN Outcome("TypeError", <<>>, 1)
             ELSE IF total[1] > 0
                  THEN Outcome("", <<Number(total[1], 1024 * 1024)>>, 1)
                  ELSE Outcome("", <<Zero>>, 1)

\* YouTubeTelegramDownloader.get_estimated_size: ValueError for an invalid
\* URL (raised before the try block); every failure inside the try block
\* is logged as a warning and 0 is returned.
get_estimated_size(url, video_format, audio_format, b) ==
    IF ~validate_youtube_url(url) THEN Outcome("ValueError", <<>>, 0)
    ELSE IF b.kind /= "info" THEN Outcome("", <<Zero>>, 1)
    ELSE LET total == sum_sizes(get(b.info, "formats", <<>>),
                                video_format, audio_format, <<0>>)
         IN  IF total = <<>> THEN Outcome("", <<Zero>>, 1)
             ELSE IF total[1] > 0
                  THEN Outcome("", <<Number(total[1], 1024 * 1024)>>, 1)
                  ELSE Outcome("", <<Zero>>, 1)

\* The format ids a caller asks for.
FormatIds == {"137", "140", "18"}

\* ----------------------------------------------------------------- fetch
\* What one extract_info(url, download=True) call does: raise
\* yt_dlp.utils.DownloadError, or return with the extension `prep` that
\* prepare_filename reports, the media file written with extension `media`
\* ("" when none is left on disk) and the thumbnail written with
\* extension `thumb` ("" when the video has none).
DownloadBackends ==
    {[kind |-> "DownloadError"]}
        \cup {[kind |-> "ok", prep |-> p, media |-> m, thumb |-> t] :
                p \in Containers, m \in Containers \cup {""},
                t \in ThumbExtSet \cup {""}}

\* The files yt-dlp leaves under outtmpl '%(title)s.%(ext)s'.
written(ydl_opts, b) ==
    (IF b.media /= "" THEN {Path(<<Title>>, b.media)} ELSE {})
      \cup (IF ydl_opts.writethumbnail /\ b.thumb /= ""
            THEN {Path(<<Title>>, b.thumb)} ELSE {})
      \cup (IF ydl_opts.writeinfojson THEN {<<Title, "info", "json">>} ELSE {})

\* The probe that keeps the last candidate that exists.
RECURSIVE last_existing(_, _, _)
last_existing(base_name, d, i) ==
    IF i > Len(ThumbExts) THEN None
    ELSE IF last_existing(base_name, d, i + 1) /= None
    THEN last_existing(base_name, d, i + 1)
    ELSE IF Path(base_name, ThumbExts[i]) \in d THEN Path(base_name, ThumbExts[i])
    ELSE None

\* next((path for path in candidates if os.path.exists(path)), None)
RECURSIVE first_existing(_, _, _)
first_existing(base_name, d, i) ==
    IF i > Len(ThumbExts) THEN None
    ELSE IF Path(base_name, ThumbExts[i]) \in d THEN Path(base_name, ThumbExts[i])
    ELSE first_existing(base_name, d, i + 1)

\* How the conversion goes: PIL converts, PIL raises on the image, PIL is
\* not installed and ffmpeg converts, PIL is not installed and ffmpeg is
\* missing or fails.
Converters == {"pil", "pil_error", "ffmpeg", "ffmpeg_error"}

\* What one call of convert_thumbnail did: the exception it raised ("" for
\* none), the path it returned, the converters it invoked in order, and
\* the files afterwards.
ConvertOutcome(exc, ret, tried, d) ==
    [exc |-> exc, ret |-> ret, tried |-> tried, disk |-> d]

\* convert_thumbnail without the outer `except Exception`.
convert_thumbnail_uncaught(input_thumbnail, conv, d) ==
    IF input_thumbnail = None \/ input_thumbnail \notin d
    THEN ConvertOutcome("", None, <<>>, d)
    ELSE LET output_thumbnail == Path(rsplit(input_thumbnail), "png")
         IN  CASE conv = "pil" ->
                    ConvertOutcome("", output_thumbnail, <<"PIL">>,
                                   d \cup {output_thumbnail})
               [] conv = "pil_error" ->
                    ConvertOutcome("OSError", None, <<"PIL">>, d)
               [] conv = "ffmpeg" ->
                    ConvertOutcome("", output_thumbnail, <<"PIL", "ffmpeg">>,
                                   d \cup {output_thumbnail})
               [] OTHER ->
                    ConvertOutcome("", None, <<"PIL", "ffmpeg">>, d)

\* convert_thumbnail of helpers.py: None for an empty or missing input;
\* PIL first, which returns the .png path or, when it raises on the
\* image, ends in the outer handler; ffmpeg only after ImportError, None
\* when it is missing or fails.
convert_thumbnail(input_thumbnail, conv, d) ==
    IF input_thumbnail = None \/ input_thumbnail \notin d
    THEN ConvertOutcome("", None, <<>>, d)
    ELSE LET output_thumbnail == Path(rsplit(input_thumbnail), "png")
         IN  CASE conv = "pil" ->
                    ConvertOutcome("", output_thumbnail, <<"PIL">>,
                                   d \cup {output_thumbnail})
               [] conv = "pil_error" ->
                    ConvertOutcome("", None, <<"PIL">>, d)
               [] conv = "ffmpeg" ->
                    ConvertOutcome("", output_thumbnail, <<"PIL", "ffmpeg">>,
                                   d \cup {output_thumbnail})
               [] OTHER ->
                    ConvertOutcome("", None, <<"PIL", "ffmpeg">>, d)

\* YouTubeTelegramDownloader.convert_thumbnail of main.py: the same, with
\* `ffmpeg -version` run before the conversion.
Main_convert_thumbnail(input_thumbnail, conv, d) ==
    IF input_thumbnail = None \/ input_thumbnail \notin d
    THEN ConvertOutcome("", None, <<>>, d)
    ELSE LET output_thumbnail == Path(rsplit(input_thumbnail), "png")
         IN  CASE conv = "pil" ->
                    ConvertOutcome("", output_thumbnail, <<"PIL">>,
                                   d \cup {output_thumbnail})
               [] conv = "pil_error" ->
                    ConvertOutcome("", None, <<"PIL">>, d)
               [] conv = "ffmpeg" ->
                    ConvertOutcome("", output_thumbnail, <<"PIL", "ffmpeg">>,
                                   d \cup {output_thumbnail})
               [] OTHER ->
                    ConvertOutcome("", None, <<"PIL", "ffmpeg">>, d)

\* A direct call convert_thumbnail(input_thumbnail).
ConvertCall(impl, input_thumbnail, conv, d) ==
    LET o == IF impl = "main" THEN Main_convert_thumbnail(input_thumbnail, conv, d)
             ELSE convert_thumbnail(input_thumbnail, conv, d)
    IN  [op |-> "convert_thumbnail", impl |-> impl, input |-> input_thumbnail,
         conv |-> IF o.tried = <<>> THEN "" ELSE conv,
         exc |-> o.exc, ret |-> o.ret, tried |-> o.tried, after |-> o.disk]

FetchOutcome(exc, ret, extracts, d) ==
    [exc |-> exc, ret |-> ret, extracts |-> extracts, disk |-> d]

valid_containers == {"mp4", "mkv", "webm"}

\* download_video that returns the expected path without looking for it.
download_video_unverified(url, video_format, audio_format, container_format, b, d) ==
    IF ~validate_youtube_url(url) THEN FetchOutcome("ValueError", <<>>, 0, d)
    ELSE IF video_format = NoId THEN FetchOutcome("ValueError", <<>>, 0, d)
    ELSE IF b.kind /= "ok" THEN FetchOutcome("RuntimeError", <<>>, 1, d)
    ELSE LET container == IF container_format \in valid_containers
                          THEN container_format ELSE "mp4"
             d2 == d \cup written([writethumbnail |-> TRUE, writeinfojson |-> FALSE], b)
             base_filename == rsplit(Path(<<Title>>, b.prep))
             video_filename == Path(base_filename, container)
         IN  FetchOutcome("",
                 <<DownloadResult(video_filename,
                                  first_existing(base_filename, d2, 1), Title, 0)>>,
                 1, d2)

\* download_video that rejects a container kind it does not know.
download_video_strict(url, video_format, audio_format, container_format, b, d) ==
    IF ~validate_youtube_url(url) THEN FetchOutcome("ValueError", <<>>, 0, d)
    ELSE IF video_format = NoId THEN FetchOutcome("ValueError", <<>>, 0, d)
    ELSE IF container_format \notin valid_containers
    THEN FetchOutcome("ValueError", <<>>, 0, d)
    ELSE IF b.kind /= "ok" THEN FetchOutcome("RuntimeError", <<>>, 1, d)
    ELSE LET d2 == d \cup written([writethumbnail |-> TRUE, writeinfojson |-> FALSE], b)
             base_filename == rsplit(Path(<<Title>>, b.prep))
             video_filename == Path(base_filename, container_format)
         IN  IF video_filename \notin d2
             THEN FetchOutcome("RuntimeError", <<>>, 1, d2)
             ELSE FetchOutcome("",
                      <<DownloadResult(video_filename,
                                       first_existing(base_filename, d2, 1), Title, 0)>>,
                      1, d2)

\* YouTubeTelegramDownloader.download_video of downloader.py
download_video(url, video_format, audio_format, container_format, b, d) ==
    IF ~validate_youtube_url(url) THEN FetchOutcome("ValueError", <<>>, 0, d)
    ELSE IF video_format = NoId THEN FetchOutcome("ValueError", <<>>, 0, d)
    ELSE IF b.kind /= "ok" THEN FetchOutcome("RuntimeError", <<>>, 1, d)
    ELSE LET container == IF container_format \in valid_containers
                          THEN container_format ELSE "mp4"
             d2 == d \cup written([writethumbnail |-> TRUE, writeinfojson |-> FALSE], b)
             base_filename == rsplit(Path(<<Title>>, b.prep))
             video_filename == Path(base_filename, container)
         IN  IF video_filename \notin d2
             THEN \* FileNotFoundError, wrapped by `except Exception`
                  FetchOutcome("RuntimeError", <<>>, 1, d2)
             ELSE FetchOutcome("",
                      <<DownloadResult(video_filename,
                                       first_existing(base_filename, d2, 1), Title, 0)>>,
                      1, d2)

possible_extensions == <<"mp4", "mkv", "webm">>

\* main.py: the prepared name when it exists, else the first alternative
\* extension that exists, else the prepared name.
RECURSIVE Main_locate(_, _, _)
Main_locate(video_filename, d, i) ==
    IF video_filename \in d \/ i > Len(possible_extensions) THEN video_filename
    ELSE IF Path(rsplit(video_filename), possible_extensions[i]) \in d
         THEN Path(rsplit(video_filename), possible_extensions[i])
         ELSE Main_locate(video_filename, d, i + 1)

\* YouTubeTelegramDownloader.download_video of main.py
Main_download_video(url, video_format, audio_format, b, conv, d) ==
    IF ~Main_validate_youtube_url(url) THEN FetchOutcome("ValueError", <<>>, 0, d)
    ELSE IF video_format = NoId THEN FetchOutcome("ValueError", <<>>, 0, d)
    ELSE IF b.kind /= "ok" THEN FetchOutcome("RuntimeError", <<>>, 1, d)
    ELSE LET d2 == d \cup written([writethumbnail |-> TRUE, writeinfojson |-> TRUE], b)
             video_filename == Main_locate(Path(<<Title>>, b.prep), d2, 1)
         IN  IF video_filename \notin d2
             THEN FetchOutcome("RuntimeError", <<>>, 1, d2)
             ELSE LET thumbnail_path == first_existing(rsplit(video_filename), d2, 1)
                      c == Main_convert_thumbnail(thumbnail_path, conv, d2)
                      converted_thumbnail ==
                          IF thumbnail_path /= None THEN c.ret ELSE None
                  IN  FetchOutcome("",
                          <<DownloadResult(video_filename,
                                IF converted_thumbnail /= None
                                THEN converted_thumbnail ELSE thumbnail_path,
                                Title, 0)>>,
                          1, c.disk)

\* The URLs, container kinds and format ids a fetch is tried on.
FetchUrls ==
    { YOUTU_BE \o SLASH \o <<"x", "-", "1">>,
      YOUTUBE_COM \o WATCH \o <<"a", NewLine, "x">>,
      YOUTUBE_COM }
ContainerArgs == {"mp4", "webm", "avi"}

DownloadCall(impl, url, video_format, audio_format, container_format, b, conv, d) ==
    LET o == IF impl = "main"
             THEN Main_download_video(url, video_format, audio_format, b, conv, d)
             ELSE download_video(url, video_format, audio_format, container_format, b, d)
        thumbFound == o.ret /= <<>> /\ o.ret[1].thumbnail_path /= None
    IN  [op |-> "download_video", impl |-> impl, url |-> url,
         args |-> <<video_format, audio_format,
                    IF impl = "main" THEN "" ELSE container_format>>,
         backend |-> IF o.extracts = 0 THEN [kind |-> "unused"] ELSE b,
         conv |-> IF impl = "main" /\ thumbFound THEN conv ELSE "",
         exc |-> o.exc, ret |-> o.ret, extracts |-> o.extracts, after |-> o.disk]

\* ---------------------------------------------------------------- cleanup
\* The state of one run of cleanup's deletion loop: the disk, the paths
\* os.remove was called on (in order), the failures logged, and the
\* exception that left the loop ("" while none did).
LoopState(d) == [disk |-> d, attempted |-> <<>>, logged |-> <<>>, exc |-> ""]

\* A deletion step with neither the existence test nor the try/except:
\* os.remove of a missing path raises, and so does a failing removal.
RemoveStepUnguarded(st, file_path, failing) ==
    IF file_path = None THEN st
    ELSE IF file_path \notin st.disk \/ file_path \in failing
         THEN [st EXCEPT !.attempted = Append(@, file_path),
                         !.exc = "OSError"]
         ELSE [st EXCEPT !.attempted = Append(@, file_path),
                         !.disk = @ \ {file_path}]

\* A deletion step whose failure is not caught: it leaves the loop.
RemoveStepUncaught(st, file_path, failing) ==
    IF file_path /= None /\ file_path \in st.disk
    THEN IF file_path \in failing
         THEN [st EXCEPT !.attempted = Append(@, file_path),
                         !.exc = "OSError"]
         ELSE [st EXCEPT !.attempted = Append(@, file_path),
                         !.disk = @ \ {file_path}]
    ELSE st

\* The body of `for file_path in files_to_clean`: remove the path when it is
\* set and exists; a failing os.remove is logged and the loop goes on.
RemoveStep(st, file_path, failing) ==
    IF file_path /= None /\ file_path \in st.disk
    THEN IF file_path \in failing
         THEN [st EXCEPT !.attempted = Append(@, file_path),
                         !.logged = Append(@, file_path)]
         ELSE [st EXCEPT !.attempted = Append(@, file_path),
                         !.disk = @ \ {file_path}]
    ELSE st

RECURSIVE RemoveLoop(_, _, _)
RemoveLoop(st, files, failing) ==
    IF files = <<>> \/ st.exc /= "" THEN st
    ELSE RemoveLoop(RemoveStep(st, Head(files), failing), Tail(files), failing)

\* main.py: container, thumbnail and the .info.json sidecar.
Main_files_to_clean(dr) ==
    <<dr.video_path, dr.thumbnail_path,
      rsplit(dr.video_path) \o <<"info", "json">> >>

\* helpers.py: container, thumbnail and base_name.{webp,jpg,png}, the one
\* equal to thumbnail_path left out.
RECURSIVE ThumbCandidates(_, _, _)
ThumbCandidates(base_name, skip, i) ==
    IF i > Len(ThumbExts) THEN <<>>
    ELSE LET thumbnail_path == Path(base_name, ThumbExts[i])
         IN  (IF thumbnail_path /= skip THEN <<thumbnail_path>> ELSE <<>>)
                 \o ThumbCandidates(base_name, skip, i + 1)

files_to_clean(dr) ==
    <<dr.video_path, dr.thumbnail_path>>
        \o ThumbCandidates(rsplit(dr.video_path), dr.thumbnail_path, 1)

\* YouTubeTelegramDownloader.cleanup of main.py: no handler around the loop.
Main_cleanup(dr, d, failing) ==
    RemoveLoop(LoopState(d), Main_files_to_clean(dr), failing)

\* cleanup of helpers.py: the outer `except Exception` logs what the loop
\* lets through and returns.
cleanup(dr, d, failing) ==
    LET st == RemoveLoop(LoopState(d), files_to_clean(dr), failing)
    IN  IF st.exc /= ""
        THEN [st EXCEPT !.logged = Append(@, <<"Cleanup error">>), !.exc = ""]
        ELSE st

Impls == {"main", "pkg"}

CleanupOf(impl, dr, d, failing) ==
    IF impl = "main" THEN Main_cleanup(dr, d, failing) ELSE cleanup(dr, d, failing)

FilesToCleanOf(impl, dr) ==
    IF impl = "main" THEN Main_files_to_clean(dr) ELSE files_to_clean(dr)

Range(s) == {s[i] : i \in 1..Len(s)}

NoCall == [op |-> "none"]

\* The record of one call of cleanup: what it was given, what it did.
CleanupCall(impl, dr, d, failing, prev) ==
    LET st == CleanupOf(impl, dr, d, failing)
    IN  [op |-> "cleanup", impl |-> impl, dr |-> dr, before |-> d,
         failing |-> failing,
         exc |-> st.exc, attempted |-> st.attempted, logged |-> st.logged,
         after |-> st.disk,
         \* the call before this one was a cleanup of the same result in
         \* which no deletion failed
         second |-> /\ prev.op = "cleanup"
                    /\ prev.logged = <<>>
                    /\ prev.exc = "",
         \* that call before removed something
         firstRemoved |-> prev.op = "cleanup" /\ prev.after /= prev.before]

\* ----------------------------------------------------------------- upload
\* What one call of upload_to_telegram did: the exception it raised ("" for
\* none), its return value, whether the client session was entered
\* (`with self.app`), and the keyword arguments of each send_video call.
UploadOutcome(exc, ret, opened, sent) ==
    [exc |-> exc, ret |-> ret, opened |-> opened, sent |-> sent]

\* The thumb argument without the os.path.exists test.
thumb_unchecked(dr, d) == dr.thumbnail_path

\* uploader.py: kwargs['thumb'] is set only for a thumbnail_path that is
\* set and exists.
thumb(dr, d) ==
    IF dr.thumbnail_path /= None /\ dr.thumbnail_path \in d
    THEN dr.thumbnail_path ELSE None

\* main.py: the same test picks the send_video call with or without thumb.
Main_thumb(dr, d) ==
    IF dr.thumbnail_path /= None /\ dr.thumbnail_path \in d
    THEN dr.thumbnail_path ELSE None

send_video_kwargs(chat_id, dr, th) ==
    [chat_id |-> chat_id, video |-> dr.video_path, caption |-> dr.video_title,
     duration |-> dr.duration, thumb |-> th]

\* TelegramUploader.upload_to_telegram.  sessionOk: the client starts;
\* sendOk: send_video returns.
upload_to_telegram(dr, d, sessionOk, sendOk) ==
    IF dr.video_path \notin d
    THEN UploadOutcome("FileNotFoundError", <<>>, FALSE, <<>>)
    ELSE IF ~sessionOk
    THEN UploadOutcome("RuntimeError", <<>>, TRUE, <<>>)
    ELSE LET kwargs == send_video_kwargs("channel", dr, thumb(dr, d))
         IN  IF sendOk
             THEN UploadOutcome("", <<TRUE>>, TRUE, <<kwargs>>)
             ELSE UploadOutcome("RuntimeError", <<>>, TRUE, <<kwargs>>)

\* YouTubeTelegramDownloader.upload_to_telegram of main.py.
Main_upload_to_telegram(dr, d, sessionOk, sendOk) ==
    IF dr.video_path \notin d
    THEN UploadOutcome("FileNotFoundError", <<>>, FALSE, <<>>)
    ELSE IF ~sessionOk
    THEN UploadOutcome("RuntimeError", <<>>, TRUE, <<>>)
    ELSE LET kwargs == send_video_kwargs("channel", dr, Main_thumb(dr, d))
         IN  IF sendOk
             THEN UploadOutcome("", <<TRUE>>, TRUE, <<kwargs>>)
             ELSE UploadOutcome("RuntimeError", <<>>, TRUE, <<kwargs>>)

UploadOf(impl, dr, d, sessionOk, sendOk) ==
    IF impl = "main" THEN Main_upload_to_telegram(dr, d, sessionOk, sendOk)
    ELSE upload_to_telegram(dr, d, sessionOk, sendOk)

UploadCall(impl, dr, d, sessionOk, sendOk) ==
    LET o == UploadOf(impl, dr, d, sessionOk, sendOk)
    IN  [op |-> "upload_to_telegram", impl |-> impl, dr |-> dr,
         sessionOk |-> sessionOk, sendOk |-> sendOk,
         exc |-> o.exc, ret |-> o.ret, opened |-> o.opened, sent |-> o.sent]

\* The locals of main() that are still read later: the URL, the listing,
\* the chosen format ids, download_result (<<>> until download_video
\* returns), the calls made in the inner try block, and the last status
\* line printed.  videoAtReturn: the file at video_path existed when
\* download_video returned.  env: the environment main read (<<>> before);
\* client: the pyrogram Client was built; entries: the members of the
\* collection the URL names (<<>> for a video).
NoRun ==
    [url |-> <<>>, formats |-> <<>>, video_format |-> NoId, audio_format |-> NoId,
     download_result |-> <<>>, videoAtReturn |-> FALSE, calls |-> <<>>,
     printed |-> "", env |-> <<>>, client |-> FALSE, entries |-> <<>>]

Init ==
    /\ disk = {}
    /\ call = NoCall
    /\ pc = "start"
    /\ run = NoRun

\* A direct call cleanup(download_result); any removal may fail.
\* It is called on a fresh result, or again on the result just cleaned.
Cleanup ==
    /\ pc = "start"
    /\ \E impl \in Impls, dr \in DownloadResults :
         /\ \/ call.op = "none"
            \/ call.op = "cleanup" /\ call.impl = impl /\ call.dr = dr
         /\ \E failing \in SUBSET (Range(FilesToCleanOf(impl, dr)) \cap disk) :
              LET c == CleanupCall(impl, dr, disk, failing, call)
              IN  /\ call' = c
                  /\ disk' = c.after
    /\ UNCHANGED <<pc, run>>

\* A direct call download_video(...).  The backend and the converter are
\* drawn only for the calls that get to them.
Download ==
    /\ pc = "start"
    /\ call.op = "none"
    /\ \E impl \in Impls, url \in FetchUrls, video_format \in {"137", NoId},
          audio_format \in {NoId} :
        \E container_format \in (IF impl = "pkg" THEN ContainerArgs ELSE {"mp4"}),
           b \in (IF /\ video_format /= NoId
                     /\ IF impl = "main" THEN Main_validate_youtube_url(url)
                        ELSE validate_youtube_url(url)
                  THEN DownloadBackends ELSE {[kind |-> "DownloadError"]}) :
          \E conv \in (IF impl = "main" /\ b.kind = "ok"
                       THEN Converters ELSE {"pil"}) :
             LET c == DownloadCall(impl, url, video_format, audio_format,
                                   container_format, b, conv, disk)
             IN  /\ call' = c
                 /\ disk' = c.after
    /\ UNCHANGED <<pc, run>>

\* A direct call convert_thumbnail(input_thumbnail) with a thumbnail path
\* or None.
ConvertThumbnail ==
    /\ pc = "start"
    /\ call.op = "none"
    /\ \E impl \in Impls,
          input_thumbnail \in {None} \cup {Path(<<Title>>, e) : e \in ThumbExtSet} :
        \E conv \in (IF input_thumbnail /= None /\ input_thumbnail \in disk
                     THEN Converters ELSE {"pil"}) :
           LET c == ConvertCall(impl, input_thumbnail, conv, disk)
           IN  /\ call' = c
               /\ disk' = c.after
    /\ UNCHANGED <<pc, run>>

\* A direct call upload_to_telegram(download_result).
Upload ==
    /\ pc = "start"
    /\ call.op = "none"
    /\ \E impl \in Impls, dr \in DownloadResults, sessionOk, sendOk \in BOOLEAN :
         call' = UploadCall(impl, dr, disk, sessionOk, sendOk)
    /\ UNCHANGED <<disk, pc, run>>

\* Files appear and disappear between calls (earlier runs, the user).
EnvRemove ==
    /\ call.op = "none" \/ pc \notin {"start", "done"}
    /\ \E f \in disk : disk' = disk \ {f}
    /\ call' = NoCall
    /\ UNCHANGED <<pc, run>>

EnvCreate ==
    /\ pc = "start"
    /\ call.op = "none"
    /\ \E f \in AllFiles \ disk : disk' = disk \cup {f}
    /\ call' = NoCall
    /\ UNCHANGED <<pc, run>>

\* ------------------------------------------------- calls of the queries
\* The queries read and write no file: they are tried where no file is.
QueryCall(op, impl, url, args, b, o) ==
    [op |-> op, impl |-> impl, url |-> url, args |-> args,
     backend |-> IF o.extracts = 0 THEN [kind |-> "unused"] ELSE b,
     exc |-> o.exc, ret |-> o.ret, extracts |-> o.extracts]

GetVideoQualities ==
    /\ pc = "start"
    /\ call.op = "none"
    /\ disk = {}
    /\ \E impl \in Impls, url \in Urls, b \in ExtractBackends :
         call' = QueryCall("get_video_qualities", impl, url, <<>>, b,
                           IF impl = "main" THEN Main_get_video_qualities(url, b)
                           ELSE get_video_qualities(url, b))
    /\ UNCHANGED <<disk, pc, run>>

GetEstimatedSize ==
    /\ pc = "start"
    /\ call.op = "none"
    /\ disk = {}
    /\ \E url \in Urls, video_format \in FormatIds,
          audio_format \in {NoId} \cup FormatIds, b \in ExtractBackends :
         call' = QueryCall("get_estimated_size", "pkg", url,
                           <<video_format, audio_format>>, b,
                           get_estimated_size(url, video_format, audio_format, b))
    /\ UNCHANGED <<disk, pc, run>>

IsPlaylist ==
    /\ pc = "start"
    /\ call.op = "none"
    /\ disk = {}
    /\ \E url \in Urls, b \in PlaylistBackends :
         call' = QueryCall("is_playlist", "pkg", url, <<>>, b, is_playlist(url, b))
    /\ UNCHANGED <<disk, pc, run>>

\* The strings validate_youtube_url is tried on: every accepted shape with
\* and without scheme and www., and strings of no accepted shape.
Schemes == {<<>>, HTTP, HTTPS}
ValidatorUrls ==
    {s \o w \o r : s \in Schemes, w \in {<<>>, WWW},
                   r \in {YOUTUBE_COM \o SLASH \o <<"c">>,
                          YOUTUBE_COM \o WATCH \o <<"a", "b">>,
                          YOUTU_BE \o SLASH \o <<"x", "-", "1">>}}
      \cup Urls
      \cup {YOUTUBE \o SLASH \o <<"x">>,
            YOUTU_BE \o SLASH,
            <<"x">> \o YOUTUBE_COM \o SLASH \o <<"x">>,
            HTTPS \o YOUTU_BE \o SLASH \o <<"x", NewLine>>}

\* A direct call validate_youtube_url(url): re.match reads the string and
\* nothing else.
ValidateYoutubeUrl ==
    /\ pc = "start"
    /\ call.op = "none"
    /\ disk = {}
    /\ \E impl \in Impls, url \in ValidatorUrls :
         call' = [op |-> "validate_youtube_url", impl |-> impl, url |-> url,
                  exc |-> "",
                  ret |-> <<IF impl = "main" THEN Main_validate_youtube_url(url)
                            ELSE validate_youtube_url(url)>>]
    /\ UNCHANGED <<disk, pc, run>>

GetPlaylistEntries ==
    /\ pc = "start"
    /\ call.op = "none"
    /\ disk = {}
    /\ \E url \in Urls, b \in PlaylistBackends :
         call' = QueryCall("get_playlist_entries", "pkg", url, <<>>, b,
                           get_playlist_entries(url, b))
    /\ UNCHANGED <<disk, pc, run>>

\* The caller takes the result of the call.
Return ==
    /\ call.op /= "none"
    /\ call' = NoCall
    /\ UNCHANGED <<disk, pc, run>>

QueryNext ==
    \/ Return
    \/ GetVideoQualities
    \/ GetEstimatedSize
    \/ IsPlaylist
    \/ GetPlaylistEntries
    \/ ValidateYoutubeUrl

\* The queries, which touch no file.
SpecQuery == Init /\ [][QueryNext]_vars

\* ------------------------------------------------------- main of main.py
\* The configuration values of the setup guidance (helpers.py 76-80); the
\* guidance of main.py names the first three.
EnvNames ==
    {"TELEGRAM_API_ID", "TELEGRAM_API_HASH", "TELEGRAM_BOT_TOKEN",
     "TELEGRAM_CHANNEL_ID"}

\* Lines 415-456: the environment check, the prompts, the constructor and
\* the URL test, in a working directory that holds none of the files.
\* env: the names set in the environment; typedToken, typedChannel: the
\* answer to the prompt is not empty.  Only TELEGRAM_API_ID and
\* TELEGRAM_API_HASH are tested.  The constructor builds the pyrogram
\* Client.
MainStart ==
    /\ pc = "start"
    /\ call.op = "none"
    /\ disk = {}
    /\ \E env \in SUBSET EnvNames, url \in FetchUrls :
         IF ~({"TELEGRAM_API_ID", "TELEGRAM_API_HASH"} \subseteq env)
         THEN /\ pc' = "done"
              /\ run' = [run EXCEPT !.env = <<env>>,
                                    !.printed = "ERROR: Required environment variables not set."]
         ELSE \E typedToken \in (IF "TELEGRAM_BOT_TOKEN" \in env
                                 THEN {TRUE} ELSE BOOLEAN) :
           IF "TELEGRAM_BOT_TOKEN" \notin env /\ ~typedToken
           THEN /\ pc' = "done"
                /\ run' = [run EXCEPT !.env = <<env>>,
                                      !.printed = "ERROR: Bot token is required"]
           ELSE \E typedChannel \in BOOLEAN :
             IF ~typedChannel
             THEN /\ pc' = "done"
                  /\ run' = [run EXCEPT !.env = <<env>>,
                                        !.printed = "ERROR: Channel ID is required"]
             ELSE IF ~Main_validate_youtube_url(url)
             THEN /\ pc' = "done"
                  /\ run' = [run EXCEPT !.env = <<env>>, !.client = TRUE, !.url = url,
                                        !.printed = "ERROR: Invalid YouTube URL"]
             ELSE /\ pc' = "validated"
                  /\ run' = [run EXCEPT !.env = <<env>>, !.client = TRUE, !.url = url]
    /\ UNCHANGED <<disk, call>>

\* What extract_info(url, download=False) returns for the URL of a
\* collection: an info dict with the member entries and no formats.
CollectionBackends ==
    {[kind |-> "info", info |-> [title |-> Title, entries |-> <<"list", e>>]] :
        e \in SeqsUpTo(EntryPool, MaxEntries) \ {<<>>}}

\* The members an info dict names: its entries with a title and a URL, as
\* get_playlist_entries tells them.
members(b) ==
    IF b.kind = "info" /\ "entries" \in DOMAIN b.info
    THEN playlist_entries(b.info.entries[2])
    ELSE <<>>

\* Lines 458-470: the listing; a failed listing and a listing without
\* video formats end the run.  main has no branch for a collection: its
\* info dict has no formats, so the run ends here.
MainList ==
    /\ pc = "validated"
    /\ \E b \in ExtractBackends \cup CollectionBackends :
         LET o == Main_get_video_qualities(run.url, b)
         IN  /\ call' = QueryCall("get_video_qualities", "main", run.url, <<>>, b, o)
             /\ IF o.exc /= ""
                THEN pc' = "done" /\ run' = [run EXCEPT !.printed = "ERROR: Failed to fetch video formats"]
                ELSE IF DOMAIN o.ret[1].video_formats = {}
                THEN pc' = "done" /\ run' = [run EXCEPT !.entries = members(b),
                                                        !.printed = "No video formats found"]
                ELSE pc' = "listed" /\ run' = [run EXCEPT !.formats = o.ret]
    /\ UNCHANGED disk

\* What the user may type at a format prompt.
TypedIds == FormatIds \cup {NoId, "999"}

\* Lines 484-493: one round of the video format prompt; an empty or
\* unlisted id prints an error and asks again.
MainSelectVideo ==
    /\ pc = "listed"
    /\ \E video_format \in TypedIds :
         IF video_format = NoId
         THEN pc' = pc /\ run' = [run EXCEPT !.printed = "ERROR: Video format ID is required"]
         ELSE IF ~validate_format_selection(DOMAIN run.formats[1].video_formats, video_format)
         THEN pc' = pc /\ run' = [run EXCEPT !.printed = "ERROR: Invalid video format ID, please select from the list"]
         ELSE pc' = "video_selected" /\ run' = [run EXCEPT !.video_format = video_format, !.printed = ""]
    /\ call' = NoCall
    /\ UNCHANGED disk

\* Lines 496-502: the audio prompt, asked only when audio formats are
\* listed; an unlisted id is dropped with a warning.
MainSelectAudio ==
    /\ pc = "video_selected"
    /\ IF DOMAIN run.formats[1].audio_formats /= {}
       THEN \E audio_input \in TypedIds :
              IF audio_input /= NoId
                   /\ validate_format_selection(DOMAIN run.formats[1].audio_formats, audio_input)
              THEN run' = [run EXCEPT !.audio_format = audio_input]
              ELSE IF audio_input /= NoId
              THEN run' = [run EXCEPT !.printed = "Warning: Invalid audio format ID, proceeding without separate audio"]
              ELSE run' = run
       ELSE run' = run
    /\ pc' = "selected"
    /\ UNCHANGED <<disk, call>>

\* Line 510: download_video; every exception is printed by one of the
\* handlers of lines 528-535 and main ends.
MainDownload ==
    /\ pc = "selected"
    /\ \E b \in DownloadBackends, conv \in Converters :
         LET c == DownloadCall("main", run.url, run.video_format, run.audio_format,
                               "mp4", b, conv, disk)
         IN  /\ call' = c
             /\ disk' = c.after
             /\ IF c.exc /= ""
                THEN /\ pc' = "done"
                     /\ run' = [run EXCEPT !.calls = Append(@, "download_video"),
                                           !.printed = "ERROR"]
                ELSE /\ pc' = "downloaded"
                     /\ run' = [run EXCEPT !.calls = Append(@, "download_video"),
                                           !.download_result = c.ret,
                                           !.videoAtReturn = c.ret[1].video_path \in c.after,
                                           !.printed = "Download complete"]

\* Line 518: upload_to_telegram; an exception is printed by a handler of
\* lines 528-535 and main ends.  The listing and the chosen ids are not
\* read again.
MainUpload ==
    /\ pc = "downloaded"
    /\ \E sessionOk, sendOk \in BOOLEAN :
         LET c == UploadCall("main", run.download_result[1], disk, sessionOk, sendOk)
         IN  /\ call' = c
             /\ IF c.exc /= ""
                THEN /\ pc' = "done"
                     /\ run' = [run EXCEPT !.calls = Append(@, "upload_to_telegram"),
                                           !.formats = <<>>, !.url = <<>>,
                                           !.video_format = NoId, !.audio_format = NoId,
                                           !.printed = "ERROR"]
                ELSE /\ pc' = "uploaded"
                     /\ run' = [run EXCEPT !.calls = Append(@, "upload_to_telegram"),
                                           !.formats = <<>>, !.url = <<>>,
                                           !.video_format = NoId, !.audio_format = NoId,
                                           !.printed = "Upload successful!"]
    /\ UNCHANGED disk

\* Line 524: cleanup, reached only after a successful upload.
MainCleanup ==
    /\ pc = "uploaded"
    /\ \E failing \in SUBSET (Range(Main_files_to_clean(run.download_result[1])) \cap disk) :
         LET c == CleanupCall("main", run.download_result[1], disk, failing, NoCall)
         IN  /\ call' = c
             /\ disk' = c.after
    /\ pc' = "done"
    /\ run' = [run EXCEPT !.calls = Append(@, "cleanup"),
                          !.printed = "Process completed successfully!"]

MainNext ==
    \/ MainStart
    \/ MainList
    \/ MainSelectVideo
    \/ MainSelectAudio
    \/ MainDownload
    \/ MainUpload
    \/ MainCleanup
    \/ EnvRemove

\* One run of main() of main.py in a working directory that starts empty.
SpecMain == Init /\ [][MainNext]_vars

\* Direct calls of the functions that read or write files, and runs of
\* main().
Next ==
    \/ Return
    \/ GetVideoQualities
    \/ Download
    \/ Cleanup
    \/ Upload
    \/ ConvertThumbnail
    \/ EnvRemove
    \/ EnvCreate
    \/ MainStart
    \/ MainList
    \/ MainSelectVideo
    \/ MainSelectAudio
    \/ MainDownload
    \/ MainUpload
    \/ MainCleanup

Spec == Init /\ [][Next]_vars

\* ---------------------------------------------------------- claims: main
\* C1 (as claimed): when a run of main ends after download_video returned
\* a DownloadResult, cleanup was called in that run, whether the upload
\* returned or raised.
C1_CleanupAlwaysAttempted ==
    (pc = "done" /\ run.download_result /= <<>>)
        => "cleanup" \in Range(run.calls)

\* ---------------------------------------------------------- claims: fetch
\* The container file download_video looks for is on the disk.
ContainerLeft ==
    IF call.impl = "main"
    THEN \E e \in {call.backend.prep} \cup Range(possible_extensions) :
            Path(<<Title>>, e) \in disk
    ELSE Path(<<Title>>, IF call.args[3] \in valid_containers
                         THEN call.args[3] ELSE "mp4") \in disk

\* C5: download_video returns a DownloadResult only when the file at its
\* video_path exists as it returns; when the backend reports success and
\* the container file is absent it fails with RuntimeError and returns
\* nothing; main calls upload_to_telegram only with a result whose video
\* file existed when download_video returned.
C5_ResultOnlyIfVideoExists ==
    /\ call.op = "download_video"
          => /\ call.ret /= <<>> => call.ret[1].video_path \in disk
             /\ (call.backend.kind = "ok" /\ ~ContainerLeft)
                   => (call.exc = "RuntimeError" /\ call.ret = <<>>)
    /\ "upload_to_telegram" \in Range(run.calls) => run.videoAtReturn

C5_Witness ==
    /\ call.op = "download_video"
    /\ call.backend.kind = "ok"
    /\ call.backend.media = ""
    /\ ~ContainerLeft
    /\ call.exc = "RuntimeError"

Valid(impl, url) ==
    IF impl = "main" THEN Main_validate_youtube_url(url)
    ELSE validate_youtube_url(url)

\* C8: for a URL the validator rejects, get_video_qualities and
\* download_video raise ValueError, not the RuntimeError of a failed
\* extraction or download, and make no extract_info call.
C8_InvalidUrlBeforeBackend ==
    (call.op \in {"get_video_qualities", "download_video"}
        /\ ~Valid(call.impl, call.url))
        => (call.exc = "ValueError" /\ call.extracts = 0 /\ call.ret = <<>>)

C8_Witness ==
    /\ call.op = "get_video_qualities"
    /\ call.impl = "pkg"
    /\ call.url /= <<>>
    /\ ~validate_youtube_url(call.url)
    /\ call.exc = "ValueError"

\* -------------------------------------------------------- claims: queries
\* C9 (as claimed): get_estimated_size raises for no URL and no backend
\* outcome: it always returns a number.
C9_NeverRaises ==
    call.op = "get_estimated_size"
        => (call.exc = "" /\ Len(call.ret) = 1)

\* The estimate failed: the backend raised or returned None, or a
\* requested format holds None for its approximate size.
EstimateFailed ==
    \/ call.backend.kind /= "info"
    \/ sum_sizes(get(call.backend.info, "formats", <<>>),
                 call.args[1], call.args[2], <<0>>) = <<>>

\* C9 (amended): for a URL the validator accepts, get_estimated_size
\* raises nothing and returns a number, which is 0 when the estimate
\* failed; for a URL the validator rejects it raises ValueError before any
\* backend call.
C9_NeverRaisesOnValidUrl ==
    call.op = "get_estimated_size"
        => IF validate_youtube_url(call.url)
           THEN /\ call.exc = ""
                /\ Len(call.ret) = 1
                /\ call.ret[1].num >= 0
                /\ EstimateFailed => call.ret[1] = Zero
           ELSE call.exc = "ValueError" /\ call.extracts = 0

C9_Witness ==
    /\ call.op = "get_estimated_size"
    /\ validate_youtube_url(call.url)
    /\ call.backend.kind = "DownloadError"
    /\ call.ret = <<Zero>>

\* The member entries the backend reported to is_playlist: -1 when it
\* reported none that can be counted.
EntriesReported ==
    IF call.backend.kind = "info" /\ "entries" \in DOMAIN call.backend.info
          /\ call.backend.info.entries[1] = "list"
    THEN Len(call.backend.info.entries[2]) ELSE -1

\* C10: is_playlist never raises and returns a boolean; it returns True
\* only for a valid URL whose extraction yields more than one member
\* entry; an invalid URL and a backend error give False.
C10_PlaylistOnlyIfSeveral ==
    call.op = "is_playlist"
        => /\ call.exc = ""
           /\ Len(call.ret) = 1
           /\ call.ret[1] \in BOOLEAN
           /\ call.ret[1] => (validate_youtube_url(call.url) /\ EntriesReported > 1)

C10_Witness ==
    /\ call.op = "is_playlist"
    /\ validate_youtube_url(call.url)
    /\ EntriesReported = 1
    /\ call.ret = <<FALSE>>

\* ------------------------------------------------------- claims: cleanup
SidecarOf(dr) == rsplit(dr.video_path) \o <<"info", "json">>

SiblingsOf(dr) ==
    {Path(rsplit(dr.video_path), e) : e \in ThumbExtSet} \cup {SidecarOf(dr)}

\* C2 (as claimed): right after a cleanup in which no deletion failed, the
\* container file, the thumbnail file and every file with the container's
\* base name and a thumbnail or sidecar extension are gone from the disk.
C2_CleanupLeavesNothing ==
    (call.op = "cleanup" /\ call.logged = <<>>)
        => /\ call.dr.video_path \notin disk
           /\ call.dr.thumbnail_path \notin disk
           /\ SiblingsOf(call.dr) \cap disk = {}

\* C3: cleanup raises no error whichever of the referenced files are
\* absent, and a second call right after a first one in which nothing
\* failed finds nothing to remove and leaves the disk as it was.
C3_CleanupIdempotent ==
    call.op = "cleanup"
        => /\ call.exc = ""
           /\ call.second => (call.attempted = <<>> /\ disk = call.before)

C3_Witness ==
    /\ call.op = "cleanup"
    /\ call.second
    /\ call.firstRemoved
    /\ call.dr.thumbnail_path /= None
    /\ call.before /= {}

\* C4: a failing removal is logged and nothing else: every candidate that
\* exists is still handed to os.remove, the ones that did not fail are
\* gone, and no error reaches the caller.
C4_DeletionsIndependent ==
    call.op = "cleanup"
        => /\ call.exc = ""
           /\ Range(call.attempted)
                 = Range(FilesToCleanOf(call.impl, call.dr)) \cap call.before
           /\ Range(call.logged) = call.failing
           /\ disk = call.before \ (Range(call.attempted) \ call.failing)

C4_Witness ==
    /\ call.op = "cleanup"
    /\ \E i, j \in 1..Len(call.attempted) :
         /\ i < j
         /\ call.attempted[i] \in call.failing
         /\ call.attempted[j] \notin call.failing
         /\ call.attempted[j] \notin disk
\* -------------------------------------------------------- claims: upload
\* C6 (as claimed): a call whose video file is missing fails with the
\* upload error (the RuntimeError of a failed upload), before the session
\* is opened and without any send_video call.
C6_MissingVideoIsUploadError ==
    (call.op = "upload_to_telegram" /\ call.dr.video_path \notin disk)
        => /\ call.exc = "RuntimeError"
           /\ ~call.opened
           /\ call.sent = <<>>

\* C7: send_video gets a thumb exactly when thumbnail_path is set and
\* names a file that exists at call time; a missing thumbnail makes no
\* error: once the session starts and send_video returns, the call
\* returns True.
C7_ThumbnailOnlyIfExists ==
    call.op = "upload_to_telegram"
        => /\ \A i \in 1..Len(call.sent) :
                IF call.dr.thumbnail_path /= None
                      /\ call.dr.thumbnail_path \in disk
                THEN call.sent[i].thumb = call.dr.thumbnail_path
                ELSE call.sent[i].thumb = None
           /\ (call.dr.video_path \in disk /\ call.sessionOk)
                 => Len(call.sent) = 1
           /\ (call.dr.video_path \in disk /\ call.sessionOk /\ call.sendOk)
                 => (call.exc = "" /\ call.ret = <<TRUE>>)

C7_Witness ==
    /\ call.op = "upload_to_telegram"
    /\ call.dr.thumbnail_path /= None
    /\ call.dr.thumbnail_path \notin disk
    /\ Len(call.sent) = 1
    /\ call.sent[1].thumb = None
    /\ call.ret = <<TRUE>>

\* The entries the backend reported to get_playlist_entries.
EntriesGiven ==
    IF call.backend.kind = "info" /\ "entries" \in DOMAIN call.backend.info
    THEN call.backend.info.entries[2] ELSE <<>>

\* s is t with some elements left out: same elements, same order.
RECURSIVE IsSubSeq(_, _)
IsSubSeq(s, t) ==
    IF s = <<>> THEN TRUE
    ELSE IF t = <<>> THEN FALSE
    ELSE IF Head(t) = <<Head(s)>> /\ IsSubSeq(Tail(s), Tail(t)) THEN TRUE
    ELSE IsSubSeq(s, Tail(t))

\* What get_playlist_entries may do: return a non-empty sequence of
\* entries that each have a title and a URL, in the backend's order, or
\* raise RuntimeError.
ReturnsEntriesOrExtractionError ==
    \/ /\ call.exc = ""
       /\ Len(call.ret) = 1
       /\ call.ret[1] /= <<>>
       /\ \A i \in 1..Len(call.ret[1]) :
            /\ DOMAIN call.ret[1][i] = {"title", "url"}
            /\ call.ret[1][i].title /= ""
            /\ call.ret[1][i].url /= ""
       /\ IsSubSeq(call.ret[1], EntriesGiven)
    \/ /\ call.exc = "RuntimeError"
       /\ call.ret = <<>>

ExtOf(p) == p[Len(p)]

\* The container kind download_video of downloader.py was called with.
Requested == call.args[3]

\* C12: download_video of downloader.py does not fail for a container
\* kind outside {mp4, mkv, webm}: it goes on to the backend and, when the
\* backend leaves the .mp4 file, returns; every returned video_path ends
\* with the requested kind when that is one of the three and with mp4
\* otherwise.
C12_UnknownContainerBecomesMp4 ==
    (call.op = "download_video" /\ call.impl = "pkg")
        => /\ call.ret /= <<>>
                => ExtOf(call.ret[1].video_path)
                      = (IF Requested \in {"mp4", "mkv", "webm"}
                         THEN Requested ELSE "mp4")
           /\ (Requested \notin {"mp4", "mkv", "webm"}
                  /\ validate_youtube_url(call.url) /\ call.args[1] /= NoId)
                => /\ call.extracts = 1
                   /\ call.exc /= "ValueError"
                   /\ (call.backend.kind = "ok" /\ Path(<<Title>>, "mp4") \in disk)
                         => (call.exc = "" /\ call.ret /= <<>>)

C12_Witness ==
    /\ call.op = "download_video"
    /\ call.impl = "pkg"
    /\ Requested = "avi"
    /\ call.exc = ""
    /\ call.ret[1].video_path = <<Title, "mp4">>

\* -------------------------------------------------------- claims: listing
\* The formats the backend reported to the call, and the codec fields as
\* yt-dlp fills them: the string 'none' stands for no codec.
FormatsGiven ==
    IF call.backend.kind = "info" THEN get(call.backend.info, "formats", <<>>)
    ELSE <<>>
HasVideo(fmt) == get(fmt, "vcodec", NoneStr) /= "none"
HasAudio(fmt) == get(fmt, "acodec", NoneStr) /= "none"

\* C13: in every listing get_video_qualities returns, a format with a
\* video codec and no audio codec is a key of video_formats only, a
\* format with an audio codec and no video codec is a key of
\* audio_formats only, a format with both is a key of video_formats only,
\* and no format id is a key of both.
C13_ClassifiedInOneGroup ==
    (call.op = "get_video_qualities" /\ call.ret /= <<>>)
        => LET video == DOMAIN call.ret[1].video_formats
               audio == DOMAIN call.ret[1].audio_formats
           IN  /\ \A i \in 1..Len(FormatsGiven) :
                    LET fmt == FormatsGiven[i]
                        id  == get(fmt, "format_id", "")
                    IN  /\ HasVideo(fmt) => (id \in video /\ id \notin audio)
                        /\ (HasAudio(fmt) /\ ~HasVideo(fmt))
                              => (id \in audio /\ id \notin video)
               /\ video \cap audio = {}
               /\ video \cup audio
                     \subseteq {get(FormatsGiven[i], "format_id", "") :
                                   i \in 1..Len(FormatsGiven)}

\* A listing of a format with both codecs next to an audio-only format.
C13_Witness ==
    /\ call.op = "get_video_qualities"
    /\ call.ret /= <<>>
    /\ \E i, j \in 1..Len(FormatsGiven) :
         /\ HasVideo(FormatsGiven[i]) /\ HasAudio(FormatsGiven[i])
         /\ ~HasVideo(FormatsGiven[j]) /\ HasAudio(FormatsGiven[j])
    /\ DOMAIN call.ret[1].video_formats = {"18"}
    /\ DOMAIN call.ret[1].audio_formats = {"140"}

\* ----------------------------------------------------------- claims: main
\* The required configuration values the environment of the run lacks.
Missing == IF run.env = <<>> THEN {} ELSE EnvNames \ run.env[1]

\* C14 (as claimed): a run of main whose environment lacks one of the
\* four required values has ended without building the messaging client
\* and without a call of the extraction backend.
C14_MissingConfigHalts ==
    Missing /= {}
        => /\ pc = "done"
           /\ ~run.client
           /\ run.calls = <<>>
           /\ call.op = "none"

\* ------------------------------------------------------ claims: thumbnail
\* C15: convert_thumbnail raises nothing; for an empty or missing input it
\* returns None and invokes no converter; it tries PIL first and invokes
\* ffmpeg only when PIL is not installed; when PIL raises on the image or
\* ffmpeg is missing or fails it returns None; a path it returns is the
\* .png next to the input and exists.
C15_ConvertNeverRaises ==
    call.op = "convert_thumbnail"
        => /\ call.exc = ""
           /\ (call.input = None \/ call.input \notin call.after)
                 => (call.ret = None /\ call.tried = <<>>)
           /\ call.tried /= <<>> => call.tried[1] = "PIL"
           /\ "ffmpeg" \in Range(call.tried) <=> call.conv \in {"ffmpeg", "ffmpeg_error"}
           /\ call.conv \in {"pil_error", "ffmpeg_error"} => call.ret = None
           /\ call.ret /= None
                 => (call.ret = Path(rsplit(call.input), "png") /\ call.ret \in disk)

\* PIL is installed and raises on the image: None, without ffmpeg.
C15_Witness ==
    /\ call.op = "convert_thumbnail"
    /\ call.input \in disk
    /\ call.conv = "pil_error"
    /\ call.tried = <<"PIL">>
    /\ call.ret = None
    /\ call.exc = ""

\* The calls of op made in the inner try block of the run.
Calls(op) == Cardinality({i \in 1..Len(run.calls) : run.calls[i] = op})

\* The uploads of the run that returned: every upload_to_telegram call but
\* a last one that ended the run with an error.
Uploaded ==
    Cardinality({i \in 1..Len(run.calls) :
                    /\ run.calls[i] = "upload_to_telegram"
                    /\ (i < Len(run.calls) \/ run.printed /= "ERROR")})

\* C16 (as claimed): a run of main on a collection of N members has, when
\* it ends, fetched every member, whether or not the fetch or upload of an
\* earlier member failed, and has printed the number of members uploaded
\* out of N.
C16_CollectionFailIsolated ==
    (pc = "done" /\ run.entries /= <<>>)
        => /\ Calls("download_video") = Len(run.entries)
           /\ run.printed = ToString(Uploaded) \o "/"
                               \o ToString(Len(run.entries)) \o " successful"

\* ------------------------------------------------------ claims: validator
HasPrefix(s, lit) == Len(s) >= Len(lit) /\ SubSeq(s, 1, Len(lit)) = lit
Drop(s, n) == SubSeq(s, n + 1, Len(s))

\* What is left of s after an optional scheme and an optional www.
AfterPrefix(s) ==
    LET a == {s} \cup {Drop(s, Len(l)) : l \in {l \in {HTTP, HTTPS} : HasPrefix(s, l)}}
    IN  a \cup {Drop(r, Len(WWW)) : r \in {r \in a : HasPrefix(r, WWW)}}

IdChars == WordChars \cup {"-"}

\* The three accepted shapes: a path on one of the two hosts, the
\* watch?v= form with a video id, the short link with a video id.
BareHostPath(r) ==
    \E h \in {YOUTUBE_COM, YOUTU_BE} :
        HasPrefix(r, h \o SLASH) /\ Len(r) > Len(h) + 1
WatchForm(r) ==
    /\ HasPrefix(r, YOUTUBE_COM \o WATCH)
    /\ Len(r) > Len(YOUTUBE_COM \o WATCH)
    /\ r[Len(YOUTUBE_COM \o WATCH) + 1] \in IdChars
ShortLink(r) ==
    /\ HasPrefix(r, YOUTU_BE \o SLASH)
    /\ Len(r) > Len(YOUTU_BE) + 1
    /\ r[Len(YOUTU_BE) + 2] \in IdChars

\* url is a one-line string of one of the accepted shapes.
AcceptedShape(url) ==
    /\ \A k \in 1..Len(url) : url[k] /= NewLine
    /\ \E r \in AfterPrefix(url) : BareHostPath(r) \/ WatchForm(r) \/ ShortLink(r)

\* C17 (as claimed): validate_youtube_url raises nothing and returns True
\* for a string of one of the three accepted shapes, with or without
\* scheme and www., and False for the empty string and every other
\* string.
C17_AcceptsExactlyTheShapes ==
    call.op = "validate_youtube_url"
        => /\ call.exc = ""
           /\ call.ret = <<AcceptedShape(call.url)>>

\* ---------------------------------------------------------- claims: sizes
\* The size a format contributes: its declared size if present, else its
\* approximate size if present, else 0.
DeclaredOrApprox(fmt) ==
    LET filesize == get(fmt, "filesize", <<>>)
        approx   == get(fmt, "filesize_approx", <<>>)
    IN  IF filesize /= <<>> THEN filesize[1]
        ELSE IF approx /= <<>> THEN approx[1]
        ELSE 0

\* The sum over the listed formats of what each contributes as the
\* requested video format and as the requested audio format.
RECURSIVE SumRequested(_)
SumRequested(formats) ==
    IF formats = <<>> THEN 0
    ELSE LET id == get(Head(formats), "format_id", NoneStr)
         IN  (IF id = call.args[1] THEN DeclaredOrApprox(Head(formats)) ELSE 0)
               + (IF call.args[2] /= NoId /\ id = call.args[2]
                  THEN DeclaredOrApprox(Head(formats)) ELSE 0)
               + SumRequested(Tail(formats))

\* C18 (as claimed): when extract_info returns the info dict,
\* get_estimated_size returns, in megabytes, the sum over the listed
\* formats of the declared size, else the approximate size, else 0, of
\* each format requested as video or as audio; a format that was not
\* requested adds nothing.
C18_SumOfRequestedSizes ==
    (call.op = "get_estimated_size" /\ validate_youtube_url(call.url)
        /\ call.backend.kind = "info")
        => /\ call.exc = ""
           /\ call.ret = <<Number(SumRequested(get(call.backend.info, "formats", <<>>)),
                                  IF SumRequested(get(call.backend.info, "formats", <<>>)) > 0
                                  THEN 1024 * 1024 ELSE 1)>>

\* ------------------------------------------------ claims: thumbnail path
\* The candidates next to the returned video file that exist, by their
\* place in the order webp, jpg, png, and the first of them.
ThumbsLeft ==
    {i \in 1..3 : Path(rsplit(call.ret[1].video_path), <<"webp", "jpg", "png">>[i]) \in disk}
FirstThumb ==
    IF ThumbsLeft = {} THEN None
    ELSE Path(rsplit(call.ret[1].video_path),
              <<"webp", "jpg", "png">>[CHOOSE i \in ThumbsLeft : \A j \in ThumbsLeft : i <= j])

\* C19 (as claimed): the thumbnail_path download_video returns is the
\* first of base.webp, base.jpg, base.png that exists, None when none
\* exists.
C19_FirstExistingThumbnail ==
    (call.op = "download_video" /\ call.ret /= <<>>)
        => call.ret[1].thumbnail_path = FirstThumb

\* C19 (amended): the thumbnail_path download_video returns is None when
\* none of base.webp, base.jpg, base.png exists and otherwise a file that
\* exists: in downloader.py the first of the three that exists; in main.py
\* base.png when convert_thumbnail converted that first file, and that
\* first file when the conversion failed.
C19_FirstExistingOrConverted ==
    (call.op = "download_video" /\ call.ret /= <<>>)
        => LET thumbnail_path == call.ret[1].thumbnail_path
           IN  /\ thumbnail_path = None <=> ThumbsLeft = {}
               /\ thumbnail_path /= None => thumbnail_path \in disk
               /\ IF call.impl = "main" /\ call.conv \in {"pil", "ffmpeg"}
                  THEN thumbnail_path = Path(rsplit(call.ret[1].video_path), "png")
                  ELSE thumbnail_path = FirstThumb

\* main.py returns the converted base.png although base.webp is the first
\* candidate that exists.
C19_Witness ==
    /\ call.op = "download_video"
    /\ call.impl = "main"
    /\ call.ret /= <<>>
    /\ FirstThumb = Path(rsplit(call.ret[1].video_path), "webp")
    /\ call.ret[1].thumbnail_path = Path(rsplit(call.ret[1].video_path), "png")

\* ------------------------------------------------ claims: format selection
\* The listing main printed for the URL of the run.
ListedVideo == DOMAIN run.formats[1].video_formats
ListedAudio == DOMAIN run.formats[1].audio_formats

\* C20: main calls download_video only after a listing with video
\* formats, with a video format id that is not empty and is a key of the
\* listed video_formats and with an audio format id that is none or a key
\* of the listed audio_formats; the ids it holds once the prompts are
\* over are of that kind already.
C20_OnlyListedFormatsFetched ==
    /\ (call.op = "download_video" /\ run.calls /= <<>>)
          => /\ run.formats /= <<>>
             /\ ListedVideo /= {}
             /\ call.args[1] /= NoId
             /\ call.args[1] \in ListedVideo
             /\ call.args[2] = NoId \/ call.args[2] \in ListedAudio
    /\ pc \in {"video_selected", "selected"}
          => (run.video_format /= NoId /\ run.video_format \in ListedVideo)
    /\ pc = "selected"
          => (run.audio_format = NoId \/ run.audio_format \in ListedAudio)

\* main fetches a listed video format together with a listed audio
\* format.
C20_Witness ==
    /\ call.op = "download_video"
    /\ run.calls = <<"download_video">>
    /\ call.args[1] \in ListedVideo
    /\ call.args[2] \in ListedAudio
    /\ ListedVideo /= FormatIds
====
